---- MODULE Spec2Model ----
(***************************************************************************)
(* Ilive Tracker: the page parser (scraper.py), the snapshot differ and    *)
(* the check cycle (main.py).                                              *)
(*                                                                         *)
(* Representation.  A str that the code scans character by character (a    *)
(* detail value such as "551 EUR") is a sequence of one-character strings; *)
(* a str that the code only copies or compares (an apartment number, a     *)
(* status, a label) is a TLA+ string.  A dict is a function; the empty     *)
(* dict is << >>.  A listing element (one <a class="apartment"> tag) is a  *)
(* record of the four attributes parse_apartments reads from it:           *)
(*   text      link.get_text(strip=True)                                   *)
(*   classes   the status keywords that occur in " ".join(classes).lower() *)
(*   title     the title attribute, as its whitespace-separated tokens     *)
(*   data_text the data-text attribute after the double unescape:          *)
(*             markers = the unit_* markers that occur in it,              *)
(*             segs    = its <br>-separated segments, tags stripped        *)
(***************************************************************************)
EXTENDS Integers, Sequences, FiniteSets, TLC

VARIABLES
    pc,               \* position of the running program
    html, idx,        \* parse_apartments: the listing elements, the loop index
    apartments, seen, \* parse_apartments: its two locals
    state_file,       \* STATE_FILE on disk
    cyc,              \* what the last check cycle did
    episode,          \* ids notified and listed free ever since, with the result
    previous, current, newly_available \* find_newly_available: arguments, result

vars == <<pc, html, idx, apartments, seen, state_file, cyc, episode,
          previous, current, newly_available>>

(***************************************************************************)
(* Bounds of the model.                                                    *)
(***************************************************************************)
MaxElems == 2       \* listing elements on a page
MaxSegs == 2        \* segments of a data-text blob
MaxValLen == 2      \* characters of a detail value

Ids == {"0.1", "0.2"}

STATUS_FREE == "free"
STATUS_RESERVED == "reserved"
STATUS_OCCUPIED == "occupied"
STATUS_UNKNOWN == "unknown"

(***************************************************************************)
(* Strings and dicts.                                                      *)
(***************************************************************************)
DigitChars == <<"0", "1", "2", "3", "4", "5", "6", "7", "8", "9">>

IsDigit(c) == \E d \in 1..10 : DigitChars[d] = c

DigitVal(c) == (CHOOSE d \in 1..10 : DigitChars[d] = c) - 1

\* dict.get(k, default)
DictGet(d, k, default) == IF k \in DOMAIN d THEN d[k] ELSE default

\* re.search(r"(\d+)", s): the leftmost maximal run of digits, << >> if none
RECURSIVE DigitRun(_)
DigitRun(s) ==
    IF s = << >> \/ ~IsDigit(Head(s)) THEN << >>
    ELSE <<Head(s)>> \o DigitRun(Tail(s))

RECURSIVE re_search_digits(_)
re_search_digits(s) ==
    IF s = << >> THEN << >>
    ELSE IF IsDigit(Head(s)) THEN DigitRun(s)
    ELSE re_search_digits(Tail(s))

\* int(m.group(1))
RECURSIVE int(_)
int(ds) ==
    IF ds = << >> THEN 0
    ELSE 10 * int(SubSeq(ds, 1, Len(ds) - 1)) + DigitVal(ds[Len(ds)])

\* str(n) for n >= 0
RECURSIVE str(_)
str(n) ==
    IF n < 10 THEN <<DigitChars[n + 1]>>
    ELSE str(n \div 10) \o <<DigitChars[(n % 10) + 1]>>

\* f"{n} EUR" if n else ""
euro(n) == IF n # 0 THEN str(n) \o <<" ", "€">> ELSE << >>

(***************************************************************************)
(* scraper.py: status detection                                            *)
(***************************************************************************)
_detect_status(classes) ==
    IF "free" \in classes THEN STATUS_FREE
    ELSE IF "reserved" \in classes THEN STATUS_RESERVED
    ELSE IF "occupied" \in classes THEN STATUS_OCCUPIED
    ELSE STATUS_UNKNOWN

EmptyDataText == [markers |-> {}, segs |-> << >>]

_detect_status_from_data_text(data_text) ==
    IF data_text = EmptyDataText THEN STATUS_UNKNOWN
    ELSE IF "unit_free" \in data_text.markers THEN STATUS_FREE
    ELSE IF "unit_reserved" \in data_text.markers THEN STATUS_RESERVED
    ELSE IF "unit_occupied" \in data_text.markers THEN STATUS_OCCUPIED
    ELSE STATUS_UNKNOWN

(***************************************************************************)
(* scraper.py: detail fields.  A segment is [colon, key, val]: whether the *)
(* cleaned segment contains ":", and the stripped text before and after    *)
(* the first one.                                                          *)
(***************************************************************************)
RECURSIVE parse_parts(_, _)
parse_parts(parts, details) ==
    IF parts = << >> THEN details
    ELSE LET part == Head(parts)
             next == IF part.colon
                     THEN [k \in DOMAIN details \cup {part.key} |->
                              IF k = part.key THEN part.val ELSE details[k]]
                     ELSE details
         IN  parse_parts(Tail(parts), next)

_parse_data_text(data_text) ==
    IF data_text = EmptyDataText THEN << >>
    ELSE parse_parts(data_text.segs, << >>)

\* "695 EUR" -> 695; 0 when the string is empty or holds no digit
parse_amount(s) ==
    IF s # << >>
    THEN LET m == re_search_digits(s) IN IF m # << >> THEN int(m) ELSE 0
    ELSE 0

\* a total only when both amounts are there
total_of_both_only(kaltmiete, nebenkosten) ==
    IF kaltmiete # 0 /\ nebenkosten # 0 THEN kaltmiete + nebenkosten ELSE 0

total_of(kaltmiete, nebenkosten) == kaltmiete + nebenkosten

\* re.sub(r"\s*Nr\.\s*\S+\s*$", "", title).strip(), on the tokens of the title
apt_type_of(title) ==
    IF Len(title) >= 2 /\ title[Len(title) - 1] = "Nr."
    THEN SubSeq(title, 1, Len(title) - 2)
    ELSE title

\* the record parse_apartments builds for one listing element
build_record(link) ==
    LET apt_type == apt_type_of(link.title)
        s0 == _detect_status(link.classes)
        status == IF s0 = STATUS_UNKNOWN
                  THEN _detect_status_from_data_text(link.data_text)
                  ELSE s0
        details == _parse_data_text(link.data_text)
        kaltmiete == parse_amount(DictGet(details, "Miethöhe", << >>))
        nebenkosten == parse_amount(DictGet(details, "Nebenkosten", << >>))
        total == total_of(kaltmiete, nebenkosten)
    IN  [name |-> <<"Apartment", link.text>>,
         type |-> IF apt_type # << >> THEN apt_type ELSE <<"Unknown">>,
         status |-> status,
         size |-> DictGet(details, "Größe", << >>),
         kaltmiete |-> euro(kaltmiete),
         nebenkosten |-> euro(nebenkosten),
         total |-> euro(total)]

(***************************************************************************)
(* scraper.py: parse_apartments, one iteration of its loop and the whole   *)
(***************************************************************************)
\* the seen set is not consulted: a later duplicate overwrites the record
skip_link_no_dedup(apt_number, seen_) == apt_number = ""

skip_link(apt_number, seen_) == apt_number = "" \/ apt_number \in seen_

DictSet(d, k, v) == [j \in DOMAIN d \cup {k} |-> IF j = k THEN v ELSE d[j]]

parse_link(link, st) ==
    IF skip_link(link.text, st.seen) THEN st
    ELSE [seen |-> st.seen \cup {link.text},
          apartments |-> DictSet(st.apartments, link.text, build_record(link))]

RECURSIVE parse_links(_, _)
parse_links(links, st) ==
    IF links = << >> THEN st
    ELSE parse_links(Tail(links), parse_link(Head(links), st))

parse_apartments(page) ==
    parse_links(page, [seen |-> {}, apartments |-> << >>]).apartments

(***************************************************************************)
(* The pages the model feeds to the parser.  Every element carries the     *)
(* title the site gives it ("Komfort-Apartment Nr. <number>").             *)
(***************************************************************************)
Texts == Ids \cup {""}

ClassSets == {{}, {"free"}, {"reserved"}, {"occupied"}, {"free", "occupied"}}

Seg(k, v) == [colon |-> TRUE, key |-> k, val |-> v]

DataTexts ==
    { EmptyDataText,
      [markers |-> {"unit_reserved"}, segs |-> <<Seg("Status", <<"r">>)>>],
      [markers |-> {}, segs |-> <<Seg("Größe", <<"2", "4", " ", "m">>),
                                  Seg("Miethöhe", <<"5", " ", "€">>)>>] }

TitleOf(text) == IF text = "" THEN << >> ELSE <<"Komfort-Apartment", "Nr.", text>>

Links ==
    { [text |-> t, classes |-> c, title |-> TitleOf(t), data_text |-> d] :
        t \in Texts, c \in ClassSets, d \in DataTexts }

SeqsUpTo(S, n) == UNION { [1..k -> S] : k \in 0..n }

Pages == SeqsUpTo(Links, MaxElems)

\* every snapshot parse_apartments returns on those pages
Snapshots == { parse_apartments(p) : p \in Pages }

(***************************************************************************)
(* main.py: the state file                                                 *)
(***************************************************************************)
None == [none |-> TRUE, val |-> << >>]

Some(v) == [none |-> FALSE, val |-> v]

NoFile == [exists |-> FALSE, data |-> << >>]

\* json.load of what json.dump wrote: a dict of str to dict of str to str
\* comes back equal
load_state(file) == IF file.exists THEN Some(file.data) ELSE None

save_state(apts) == [exists |-> TRUE, data |-> apts]

(***************************************************************************)
(* main.py: find_newly_available                                           *)
(***************************************************************************)
\* was_unavailable starts False: a never-seen id is not a transition
was_unavailable_default_false(prev, apt_id) ==
    IF apt_id \in DOMAIN prev /\ DOMAIN prev[apt_id] # {}
    THEN DictGet(prev[apt_id], "status", "") \in {STATUS_OCCUPIED, STATUS_RESERVED}
    ELSE FALSE

\* the previous record is never looked up
was_unavailable_no_lookup(prev, apt_id) == TRUE

was_unavailable(prev, apt_id) ==
    IF apt_id \in DOMAIN prev /\ DOMAIN prev[apt_id] # {}
    THEN DictGet(prev[apt_id], "status", "") \in {STATUS_OCCUPIED, STATUS_RESERVED}
    ELSE TRUE

is_available(info) ==
    \/ info["status"] = STATUS_FREE
    \/ info["status"] = "unknown" /\ DictGet(info, "rent", << >>) # << >>

\* "previous or {}": a missing state file is read as an empty snapshot
find_newly_available_none_as_empty(prev, cur) ==
    LET keep == { apt_id \in DOMAIN cur :
                    is_available(cur[apt_id]) /\ was_unavailable(prev.val, apt_id) }
    IN  [apt_id \in keep |-> cur[apt_id]]

find_newly_available(prev, cur) ==
    IF prev.none THEN << >>
    ELSE LET keep == { apt_id \in DOMAIN cur :
                         is_available(cur[apt_id]) /\ was_unavailable(prev.val, apt_id) }
         IN  [apt_id \in keep |-> cur[apt_id]]

(***************************************************************************)
(* main.py: check_availability.  fetched is what get_apartments did        *)
(* ([raised, apartments]), smtp_ok whether send_email would succeed, file  *)
(* the state file when the cycle starts.  The result is the state file     *)
(* when the cycle ends and what the cycle did.                             *)
(***************************************************************************)
Cycle(file, outcome, apts, delta, notify) ==
    [file |-> file, outcome |-> outcome, apartments |-> apts,
     delta |-> delta, notify |-> notify]

\* the handler saves an empty snapshot before it returns
on_fetch_error_saves(file) ==
    Cycle(save_state(<< >>), "fetch_error", << >>, << >>, "none")

\* except Exception: print, return
on_fetch_error(file) == Cycle(file, "fetch_error", << >>, << >>, "none")

\* the warning is printed but the return is missing; the save is reached
on_empty_falls_through(file, apts) ==
    Cycle(save_state(apts), "empty", apts, << >>, "none")

\* if not apartments: print, return
on_empty(file, apts) == Cycle(file, "empty", apts, << >>, "none")

\* if first_run: save_state(apartments), return
on_first_run(apts) == Cycle(save_state(apts), "first_run", apts, << >>, "none")

\* notifier.py: notify_available returns at once on an empty mapping, and
\* raises when send_email does
notify_available(delta, smtp_ok) ==
    IF DOMAIN delta = {} THEN "none" ELSE IF smtp_ok THEN "sent" ELSE "raised"

\* save_state sits in the else branch of "if newly_available"
compare_and_save_in_else(file, apts, smtp_ok) ==
    LET prev == load_state(file)
        delta == find_newly_available(prev, apts)
        notify == IF DOMAIN delta # {} THEN notify_available(delta, smtp_ok) ELSE "none"
    IN  Cycle(IF DOMAIN delta # {} THEN file ELSE save_state(apts),
              "checked", apts, delta, notify)

\* no try/except around notify_available: its exception ends the cycle
compare_and_save_no_except(file, apts, smtp_ok) ==
    LET prev == load_state(file)
        delta == find_newly_available(prev, apts)
        notify == IF DOMAIN delta # {} THEN notify_available(delta, smtp_ok) ELSE "none"
    IN  Cycle(IF notify = "raised" THEN file ELSE save_state(apts),
              "checked", apts, delta, notify)

compare_and_save(file, apts, smtp_ok) ==
    LET prev == load_state(file)
        delta == find_newly_available(prev, apts)
        notify == IF DOMAIN delta # {} THEN notify_available(delta, smtp_ok) ELSE "none"
    IN  Cycle(save_state(apts), "checked", apts, delta, notify)

check_availability(first_run, fetched, smtp_ok, file) ==
    IF fetched.raised THEN on_fetch_error(file)
    ELSE IF DOMAIN fetched.apartments = {} THEN on_empty(file, fetched.apartments)
    ELSE IF first_run THEN on_first_run(fetched.apartments)
    ELSE compare_and_save(file, fetched.apartments, smtp_ok)

(***************************************************************************)
(* The program.  main() decides first_run from the state file, runs one    *)
(* check at once and, unless --once, one more at every tick of the         *)
(* scheduler; cycles never overlap.  The state file outlives the process.  *)
(***************************************************************************)
Idle == [first_run |-> FALSE, had_state |-> FALSE, outcome |-> "idle",
         apartments |-> << >>, delta |-> << >>, notify |-> "none"]

FetchResults ==
    {[raised |-> TRUE, apartments |-> << >>]} \cup
    {[raised |-> FALSE, apartments |-> s] : s \in Snapshots}

FreeIds(apts) == { i \in DOMAIN apts : apts[i].status = STATUS_FREE }

\* the ids whose notification was attempted ("sent" or "raised") and that
\* every snapshot parsed since then lists as free
EpisodeAfter(ep, r) ==
    IF r.outcome = "fetch_error" THEN ep
    ELSE LET notified == IF r.notify # "none" THEN DOMAIN r.delta ELSE {}
         IN  [i \in (DOMAIN ep \cup notified) \cap FreeIds(r.apartments) |->
                 IF i \in notified THEN r.notify ELSE ep[i]]

NoParse ==
    /\ html = << >> /\ idx = 0 /\ apartments = << >> /\ seen = {}

NoDiff ==
    /\ previous = None /\ current = << >> /\ newly_available = << >>

NoCycle ==
    /\ state_file = NoFile /\ cyc = Idle /\ episode = << >>

Init ==
    /\ pc = "start"
    /\ NoCycle /\ NoParse /\ NoDiff

RunCheck(first_run, next_pc) ==
    \E fetched \in FetchResults, smtp_ok \in BOOLEAN :
        LET r == check_availability(first_run, fetched, smtp_ok, state_file)
        IN  /\ state_file' = r.file
            /\ cyc' = [first_run |-> first_run, had_state |-> state_file.exists,
                       outcome |-> r.outcome, apartments |-> r.apartments,
                       delta |-> r.delta, notify |-> r.notify]
            /\ episode' = EpisodeAfter(episode, r)
            /\ pc' = next_pc
            /\ UNCHANGED <<html, idx, apartments, seen,
                           previous, current, newly_available>>

\* python main.py --once
MainOnce ==
    /\ pc = "start"
    /\ RunCheck(~state_file.exists, "exited")

\* python main.py: the immediate check, then the schedule
MainContinuous ==
    /\ pc = "start"
    /\ RunCheck(~state_file.exists, "scheduled")

\* schedule.run_pending() when the interval has elapsed
ScheduledCheck ==
    /\ pc = "scheduled"
    /\ RunCheck(FALSE, "scheduled")

NoCheck(next_pc) ==
    /\ pc' = next_pc
    /\ cyc' = Idle
    /\ UNCHANGED <<state_file, episode, html, idx, apartments, seen,
                   previous, current, newly_available>>

KeyboardInterrupt ==
    /\ pc = "scheduled"
    /\ NoCheck("exited")

\* the operator starts the program again
Launch ==
    /\ pc = "exited"
    /\ NoCheck("start")

Next == MainOnce \/ MainContinuous \/ ScheduledCheck \/ KeyboardInterrupt \/ Launch

Spec == Init /\ [][Next]_vars

(***************************************************************************)
(* parse_apartments alone, one loop iteration per step.                    *)
(***************************************************************************)
ParseLink ==
    /\ pc = "parse"
    /\ idx < Len(html)
    /\ LET st == parse_link(html[idx + 1], [seen |-> seen, apartments |-> apartments])
       IN  /\ seen' = st.seen
           /\ apartments' = st.apartments
    /\ idx' = idx + 1
    /\ UNCHANGED <<pc, html, state_file, cyc, episode,
                   previous, current, newly_available>>

ParseReturn ==
    /\ pc = "parse"
    /\ idx = Len(html)
    /\ pc' = "parsed"
    /\ UNCHANGED <<html, idx, apartments, seen, state_file, cyc, episode,
                   previous, current, newly_available>>

NextParse == ParseLink \/ ParseReturn

InitParse ==
    /\ pc = "parse"
    /\ html \in Pages
    /\ idx = 0 /\ apartments = << >> /\ seen = {}
    /\ NoCycle /\ NoDiff

SpecParse == InitParse /\ [][NextParse]_vars

\* pages of one listing whose detail blob varies
NonDigit == "€"

Chars == {"0", "5", NonDigit}

Values == SeqsUpTo(Chars, MaxValLen)

MoneySegs ==
    { Seg(k, v) : k \in {"Miethöhe", "Nebenkosten"}, v \in Values }
    \cup {[colon |-> FALSE, key |-> "", val |-> << >>]}

MoneyPages ==
    { <<[text |-> "0.1", classes |-> {}, title |-> TitleOf("0.1"),
         data_text |-> [markers |-> {}, segs |-> s]]>> :
        s \in SeqsUpTo(MoneySegs, MaxSegs) }

InitMoney ==
    /\ pc = "parse"
    /\ html \in MoneyPages
    /\ idx = 0 /\ apartments = << >> /\ seen = {}
    /\ NoCycle /\ NoDiff

SpecMoney == InitMoney /\ [][NextParse]_vars

(***************************************************************************)
(* find_newly_available alone.                                             *)
(***************************************************************************)
Diff ==
    /\ pc = "diff"
    /\ newly_available' = find_newly_available(previous, current)
    /\ pc' = "diffed"
    /\ UNCHANGED <<previous, current, html, idx, apartments, seen,
                   state_file, cyc, episode>>

InitDiff ==
    /\ pc = "diff"
    /\ previous \in {None} \cup {Some(s) : s \in Snapshots}
    /\ current \in Snapshots
    /\ newly_available = << >>
    /\ NoCycle /\ NoParse

SpecDiff == InitDiff /\ [][Diff]_vars

(***************************************************************************)
(* Properties.                                                             *)
(***************************************************************************)
Ran == cyc.outcome # "idle"

Parsed(c) == c.outcome \notin {"idle", "fetch_error"}

Unavailable == {STATUS_OCCUPIED, STATUS_RESERVED}

\* C1: find_newly_available(None, current) is empty for every snapshot, and a
\* check cycle that starts with no state file never passes a non-empty delta
\* to notify_available, whether it runs with first_run or without.
C1_NeverNotifyOnBootstrap ==
    /\ \A c \in Snapshots : DOMAIN find_newly_available(None, c) = {}
    /\ (Ran /\ ~cyc.had_state) => (DOMAIN cyc.delta = {} /\ cyc.notify = "none")

\* a scheduled cycle with no state file (the first one aborted) sees a free
\* apartment
C1_Witness ==
    /\ cyc.outcome = "checked" /\ ~cyc.first_run /\ ~cyc.had_state
    /\ FreeIds(cyc.apartments) # {}

\* C2: with a previous snapshot, an id whose parsed record has status unknown
\* and a non-empty cold rent, and that was occupied, reserved or not listed
\* before, is in the delta.
C2_AmbiguousPricedIsAvailable ==
    (pc = "diffed" /\ ~previous.none) =>
        \A id \in DOMAIN current :
            ( /\ current[id].status = STATUS_UNKNOWN
              /\ current[id].kaltmiete # << >>
              /\ (id \in DOMAIN previous.val =>
                    previous.val[id].status \in Unavailable) )
            => id \in DOMAIN newly_available

\* C3: with a previous snapshot (the empty one included), an id that is free
\* now is in the delta, with its current record, exactly when it was not
\* listed before or was occupied or reserved.
C3_FreeIffWasUnavailable ==
    (pc = "diffed" /\ ~previous.none) =>
        \A id \in FreeIds(current) :
            /\ id \in DOMAIN newly_available <=>
                  (id \notin DOMAIN previous.val
                     \/ previous.val[id].status \in Unavailable)
            /\ id \in DOMAIN newly_available => newly_available[id] = current[id]

\* one free id is new (not listed before), another was free already
C3_Witness ==
    /\ pc = "diffed" /\ ~previous.none
    /\ \E i, j \in FreeIds(current) :
          /\ i \notin DOMAIN previous.val /\ i \in DOMAIN newly_available
          /\ j \in FreeIds(previous.val) /\ j \notin DOMAIN newly_available

\* C4: find_newly_available(S, S) is empty for every snapshot S.
C4_NoChangeNoDelta ==
    (pc = "diffed" /\ ~previous.none /\ previous.val = current) =>
        DOMAIN newly_available = {}

\* S lists a free apartment and a priced one of unknown status
C4_Witness ==
    /\ pc = "diffed" /\ ~previous.none /\ previous.val = current
    /\ FreeIds(current) # {}
    /\ \E id \in DOMAIN current :
          current[id].status = STATUS_UNKNOWN /\ current[id].kaltmiete # << >>

\* C5: a cycle whose get_apartments raises leaves the state file as it was
\* and attempts no notification.
C5_FetchErrorKeepsState ==
    [][cyc'.outcome = "fetch_error" =>
          /\ state_file' = state_file
          /\ cyc'.notify = "none" /\ DOMAIN cyc'.delta = {}]_vars

\* a fetch failed while a snapshot was on disk
C5_Witness == cyc.outcome = "fetch_error" /\ cyc.had_state

\* C6: after a cycle that parsed at least one listing the state file holds
\* that cycle's snapshot, whatever became of the notification.
C6_SnapshotPersisted ==
    (Parsed(cyc) /\ DOMAIN cyc.apartments # {}) =>
        (state_file.exists /\ state_file.data = cyc.apartments)

\* the notification raised
C6_Witness ==
    /\ cyc.notify = "raised" /\ DOMAIN cyc.delta # {}
    /\ state_file.data = cyc.apartments

\* C7: a cycle whose parse is empty leaves the state file as it was and
\* attempts no notification; a non-empty persisted snapshot is never replaced
\* by an empty one.
C7_EmptyParseKeepsState ==
    [][/\ (Parsed(cyc') /\ DOMAIN cyc'.apartments = {}) =>
              (state_file' = state_file /\ cyc'.notify = "none")
       /\ (state_file.exists /\ DOMAIN state_file.data # {}) =>
              (state_file'.exists /\ DOMAIN state_file'.data # {})]_vars

\* an empty page was parsed while a snapshot was on disk
C7_Witness ==
    /\ Parsed(cyc) /\ DOMAIN cyc.apartments = {}
    /\ cyc.had_state /\ DOMAIN state_file.data # {}

\* the number a formatted monetary field shows, 0 for the empty field
AmountOf(field) ==
    IF field = << >> THEN 0 ELSE int(SubSeq(field, 1, Len(field) - 2))

HasLabel(link, label) ==
    \E i \in 1..Len(link.data_text.segs) :
        link.data_text.segs[i].colon /\ link.data_text.segs[i].key = label

FirstIndex(id) ==
    CHOOSE i \in 1..Len(html) :
        html[i].text = id /\ \A j \in 1..(i - 1) : html[j].text # id

\* C8 as claimed: total is the formatted sum when both labels are present and
\* is empty otherwise, in particular when only one of them is present.
C8_TotalOnlyWhenBothPresent ==
    pc = "parsed" =>
        \A id \in DOMAIN apartments :
            LET r == apartments[id]
                link == html[FirstIndex(id)]
                both == HasLabel(link, "Miethöhe") /\ HasLabel(link, "Nebenkosten")
            IN  /\ both => r.total = euro(AmountOf(r.kaltmiete) + AmountOf(r.nebenkosten))
                /\ ~both => r.total = << >>
                /\ r.total # << >> => AmountOf(r.total) > 0

\* C8 as amended: total is the formatted sum of the cold-rent and utilities
\* values, a missing label or a value without digits counting as 0; it is
\* empty exactly when that sum is 0, so with one amount it shows that amount.
C8_TotalIsSum ==
    pc = "parsed" =>
        \A id \in DOMAIN apartments :
            LET r == apartments[id]
                sum == AmountOf(r.kaltmiete) + AmountOf(r.nebenkosten)
            IN  /\ r.total = euro(sum)
                /\ r.total # << >> <=> sum > 0
                /\ r.nebenkosten = << >> => r.total = r.kaltmiete
                /\ r.kaltmiete = << >> => r.total = r.nebenkosten

\* only the cold rent is given, and the total shows it
C8_Witness ==
    /\ pc = "parsed"
    /\ \E id \in DOMAIN apartments :
          /\ HasLabel(html[1], "Miethöhe") /\ ~HasLabel(html[1], "Nebenkosten")
          /\ apartments[id].kaltmiete # << >>
          /\ apartments[id].total = apartments[id].kaltmiete

\* C9: at every point of the loop, the keys of the snapshot are the non-empty
\* ids of the elements read so far, and each record is the one built from
\* the first element that carries its id.
C9_FirstOccurrenceWins ==
    pc \in {"parse", "parsed"} =>
        /\ DOMAIN apartments = { html[i].text : i \in 1..idx } \ {""}
        /\ \A id \in DOMAIN apartments :
              apartments[id] = build_record(html[FirstIndex(id)])

\* two elements share an id and differ in what they say
C9_Witness ==
    /\ pc = "parsed" /\ Len(html) >= 2
    /\ html[1].text # "" /\ html[2].text = html[1].text
    /\ build_record(html[1]) # build_record(html[2])

\* C10: an id whose notification was attempted and that every snapshot
\* parsed since lists as free is not in the delta of a later cycle that
\* lists it as free.
C10_NotifiedOncePerEpisode ==
    [][\A id \in DOMAIN episode :
          (Parsed(cyc') /\ id \in FreeIds(cyc'.apartments))
             => id \notin DOMAIN cyc'.delta]_vars

\* a later cycle still lists as free an apartment whose notification raised
\* earlier, and notifies nobody
C10_Witness ==
    /\ cyc.outcome = "checked" /\ cyc.notify = "none"
    /\ \E id \in DOMAIN episode :
          episode[id] = "raised" /\ id \in FreeIds(cyc.apartments)

====
